---- MODULE Spec2Model ----
(***************************************************************************)
(* mod_prometheus (src/mod_prometheus.rs): the built-in counters and       *)
(* gauges, the dynamic metric stores, the Metric Registry behind REGPTR,   *)
(* the event handlers bound by prometheus_load and the API commands.       *)
(*                                                                         *)
(* Every `X.lock().unwrap().op()` of the source is one critical section    *)
(* and is one step of the thread that runs it.  Handlers and commands run  *)
(* on the host's threads; load and unload run on the host's module thread. *)
(***************************************************************************)
EXTENDS Integers, Sequences, FiniteSets, TLC

\* ------------------------------------------------------------------ bounds
NumThreads == 2      \* host threads that deliver events and run commands
MaxCmds    == 2      \* command invocations of a loaded module in one behaviour
MaxLifeCmds == 1     \* command invocations across loads and unloads in one behaviour
MaxLiveCmds == 2     \* command invocations in a behaviour checked for progress
MaxLiveEvents == 1   \* events delivered in a behaviour checked for progress
MaxEvents  == 3      \* events delivered concurrently in one behaviour
MaxSerial  == 4      \* events delivered one after the other in one behaviour
MaxLoads   == 2      \* prometheus_load calls in one behaviour
MaxBill    == 2      \* largest variable_billsec value delivered
MaxVal     == 2      \* largest magnitude of a command's value token

Threads == 1 .. NumThreads

\* --------------------------------------------------------- metric names
\* enum FSCounter, in the order of the COUNTERS array
FSCounter ==
    << "Heartbeats", "SessionsCreated", "SessionsDestroyed", "SessionsAnswered",
       "SessionsFailed", "SessionsInboundCreated", "SessionsInboundAnswered",
       "SessionsInboundFailed", "SessionsOutboundCreated",
       "SessionsOutboundAnswered", "SessionsOutboundFailed", "Registrations",
       "RegistrationAttempts", "RegistrationFailures",
       "SessionsOutboundCallDurationTotal", "SessionsOutboundCallHangup",
       "SessionsOutboundCallHangupComplete", "SessionsInboundCallDurationTotal",
       "SessionsInboundCallHangup", "SessionsInboundCallHangupComplete" >>

\* enum FSGauge, in the order of the GAUGES array
FSGauge ==
    << "SessionsActiveInbound", "SessionsActiveOutbound", "SessionsOutboundASR",
       "RegistrationsActive", "SessionsOutboundACD", "SessionsInboundACD",
       "SessionsInboundASR" >>

\* the metric name each element of COUNTERS is constructed with
COUNTERS ==
    << "freeswitch_heartbeats_total", "freeswitch_sessions_created_total",
       "freeswitch_sessions_destroyed_total", "freeswitch_sessions_answered_total",
       "freeswitch_sessions_failed_total", "freeswitch_sessions_inbound_total",
       "freeswitch_sessions_inbound_answered_total",
       "freeswitch_sessions_inbound_failed_total",
       "freeswitch_sessions_outbound_total",
       "freeswitch_sessions_outbound_answered_total",
       "freeswitch_sessions_outbound_failed_total",
       "freeswitch_registrations_total", "freeswitch_registration_attempts_total",
       "freeswitch_registration_failures_total",
       "freeswitch_sessions_outbound_duration_total",
       "freeswitch_sessions_outbound_hangup",
       "freeswitch_sessions_outbound_hangup_complete",
       "freeswitch_sessions_inbound_duration_total",
       "freeswitch_sessions_inbound_hangup",
       "freeswitch_sessions_inbound_hangup_complete" >>

\* the metric name each element of GAUGES is constructed with
GAUGES ==
    << "freeswitch_sessions_active_inbound", "freeswitch_sessions_active_outbound",
       "freeswitch_outbound_asr", "freeswitch_registrations_active",
       "freeswitch_outbound_acd", "freeswitch_inbound_acd",
       "freeswitch_inbound_asr" >>

CounterIds == { FSCounter[i] : i \in 1 .. Len(FSCounter) }
GaugeIds   == { FSGauge[i] : i \in 1 .. Len(FSGauge) }

\* ------------------------------------------------------------ f64 values
\* An f64 is modelled as a reduced fraction n/d with d > 0; d = 0 stands for
\* the non-finite results of a division by zero: 1/0 = +inf, -1/0 = -inf and
\* 0/0 = NaN.  All finite values of the model are far below 2^53, where f64
\* arithmetic on integers is exact.
Abs(x) == IF x < 0 THEN -x ELSE x

Sign(x) == IF x < 0 THEN -1 ELSE IF x = 0 THEN 0 ELSE 1

RECURSIVE GCD(_, _)
GCD(a, b) == IF b = 0 THEN a ELSE GCD(b, a % b)

F(x) == [n |-> x, d |-> 1]

IsFinite(r) == r.d # 0

\* f64 division a / b of two integer-valued f64s
FDiv(a, b) ==
    IF b = 0 THEN [n |-> Sign(a), d |-> 0]
    ELSE LET g == GCD(Abs(a), Abs(b))
         IN  [n |-> Sign(b) * (a \div g), d |-> Abs(b) \div g]

\* f64 addition of an integer to a gauge value (inf and NaN absorb it)
FAdd(r, k) == IF r.d = 0 THEN r ELSE [n |-> r.n + k * r.d, d |-> r.d]

\* `x as u64` of a non-fractional f64: negative values saturate to 0
F64AsU64(x) == IF x < 0 THEN 0 ELSE x

\* `b as f64` of a u64 (exact below 2^53)
U64AsF64(b) == b

\* u64 division; a zero divisor panics ("attempt to divide by zero")
U64Div(a, b) == a \div b

\* ----------------------------------------------------------------- state
VARIABLES
    regptr,        \* REGPTR: "NULL" or "REG" (the Box leaked by prometheus_load)
    registry,      \* the register_counter / register_gauge calls received by
                   \* the Registry REGPTR was last set to, in order
    regState,      \* that Registry: "none", "started" or "stopped"
    counters,      \* value of each element of COUNTERS
    gauges,        \* value of each element of GAUGES
    heap,          \* the dynamic metric instances ever allocated (Arc<Mutex<..>>)
    userCounters,  \* USER_COUNTERS: name -> index into heap
    userGauges,    \* USER_GAUGES:   name -> index into heap
    storeLock,     \* owner of the USER_COUNTERS / USER_GAUGES mutex, 0 = free
    eventNodeIds,  \* EVENT_NODE_IDS
    subs,          \* host: subscription id -> event kind, for the bound ones
    nextNode,      \* host: next subscription id event_bind returns
    unbound,       \* host: the ids event_unbind was called with, in order
    apis,          \* host: the APIs / application added by prometheus_load
    hostPc,        \* position of the module thread inside prometheus_unload
    hostReg,       \* prometheus_unload's local `reg`
    pc,            \* position of each thread
    task,          \* the event or command each thread is handling
    loc,           \* the locals of each thread's handler
    out,           \* the last invocation to return: what it was, the status
                   \* and value it reported
    pre,           \* serial delivery: the metrics as they were when each
                   \* thread's handler began
    derefNull,     \* the functions that have dereferenced a null REGPTR
    crashed,       \* the process has trapped
    nCmds,         \* command invocations so far
    nEvents,       \* events delivered so far
    seen,          \* how many events of each kind and Call-Direction the host
                   \* has delivered: <<kind, direction>> -> count
    nLoads         \* prometheus_load calls so far

vars ==
    << regptr, registry, regState, counters, gauges, heap, userCounters,
       userGauges, storeLock, eventNodeIds, subs, nextNode, unbound, apis,
       hostPc, hostReg, pc, task, loc, out, pre, derefNull, crashed,
       nCmds, nEvents, seen, nLoads >>

lifeVars  == << regptr, regState, eventNodeIds, subs, nextNode, unbound, apis,
                hostPc, hostReg, nLoads >>
storeVars == << heap, userCounters, userGauges, storeLock, registry >>
ubVars    == << derefNull, crashed >>

\* an absent header / token, and a present one that holds the integer v or
\* (num = FALSE) text that does not parse as a number
Absent  == [present |-> FALSE, num |-> FALSE, v |-> 0]
Bad     == [present |-> TRUE, num |-> FALSE, v |-> 0]
Num(k)  == [present |-> TRUE, num |-> TRUE, v |-> k]

NoTask == [kind |-> "none", op |-> "", null |-> FALSE, name |-> "", tok |-> Absent,
           dir |-> "", cause |-> "", bill |-> Absent, ans |-> Absent]
NoLoc  == [name |-> "", val |-> 0, inst |-> 0, a |-> 0, b |-> 0, r |-> F(0)]
NoOut  == [op |-> "", dir |-> "", status |-> "none", msg |-> "", v |-> 0]

Init ==
    /\ regptr = "NULL"
    /\ registry = << >>
    /\ regState = "none"
    /\ counters = [c \in CounterIds |-> 0]
    /\ gauges = [g \in GaugeIds |-> F(0)]
    /\ heap = << >>
    /\ userCounters = << >>
    /\ userGauges = << >>
    /\ storeLock = [s \in {"counters", "gauges"} |-> 0]
    /\ eventNodeIds = << >>
    /\ subs = << >>
    /\ nextNode = 1
    /\ unbound = << >>
    /\ apis = FALSE
    /\ hostPc = "idle"
    /\ hostReg = "NULL"
    /\ pc = [t \in Threads |-> "idle"]
    /\ task = [t \in Threads |-> NoTask]
    /\ loc = [t \in Threads |-> NoLoc]
    /\ out = NoOut
    /\ pre = [t \in Threads |-> [c |-> counters, g |-> gauges]]
    /\ derefNull = {}
    /\ crashed = FALSE
    /\ nCmds = 0
    /\ nEvents = 0
    /\ seen = << >>
    /\ nLoads = 0


\* ------------------------------------------------------------- lifecycle
\* the event kinds prometheus_load binds, in the order it binds them
EventKinds ==
    << "HEARTBEAT", "CHANNEL_CREATE", "CHANNEL_ANSWER", "CHANNEL_HANGUP",
       "CHANNEL_HANGUP_COMPLETE", "CHANNEL_DESTROY", "sofia::register_attempt",
       "sofia::register_failure", "sofia::register", "sofia::unregister",
       "sofia::expire" >>

\* a registration received by the Registry; the built-in instances are
\* numbered below zero, the dynamic ones by their index in heap
RegEntry(kind, name, inst) == [kind |-> kind, name |-> name, inst |-> inst]

BuiltinRegistrations ==
    [i \in 1 .. Len(COUNTERS) |-> RegEntry("counter", COUNTERS[i], -i)]
    \o [i \in 1 .. Len(GAUGES) |-> RegEntry("gauge", GAUGES[i], -(Len(COUNTERS) + i))]

Running == ~crashed

\* prometheus_load: a fresh Registry behind REGPTR, started, the built-in
\* metrics registered, the eleven handlers bound and their ids pushed, the
\* APIs and the application added.  The host loads a module that is not loaded.
Load ==
    /\ Running
    /\ hostPc = "idle"
    /\ regptr = "NULL"
    /\ nLoads < MaxLoads
    /\ nLoads' = nLoads + 1
    /\ regptr' = "REG"
    /\ regState' = "started"
    /\ registry' = BuiltinRegistrations
    /\ subs' = subs @@ [i \in nextNode .. nextNode + Len(EventKinds) - 1 |->
                           EventKinds[i - nextNode + 1]]
    /\ eventNodeIds' = eventNodeIds
                        \o [i \in 1 .. Len(EventKinds) |-> nextNode + i - 1]
    /\ nextNode' = nextNode + Len(EventKinds)
    /\ apis' = TRUE
    /\ UNCHANGED << counters, gauges, heap, userCounters, userGauges, storeLock,
                    unbound, hostPc, hostReg, pc, task, loc, out, pre, derefNull, crashed, nCmds, nEvents, seen >>

\* prometheus_unload, line 581: let reg = &*REGPTR
UnloadBegin ==
    /\ Running
    /\ hostPc = "idle"
    /\ hostReg' = regptr
    /\ hostPc' = "u_gauges"
    /\ UNCHANGED << regptr, registry, regState, counters, gauges, heap,
                    userCounters, userGauges, storeLock, eventNodeIds, subs,
                    nextNode, unbound, apis, pc, task, loc, out, pre, derefNull, crashed, nCmds, nEvents, seen, nLoads >>

\* line 582: USER_GAUGES.lock().unwrap().clear()
UnloadClearGauges ==
    /\ Running
    /\ hostPc = "u_gauges"
    /\ storeLock["gauges"] = 0
    /\ userGauges' = << >>
    /\ hostPc' = "u_counters"
    /\ UNCHANGED << regptr, registry, regState, counters, gauges, heap,
                    userCounters, storeLock, eventNodeIds, subs, nextNode,
                    unbound, apis, hostReg, pc, task, loc, out, pre, derefNull, crashed, nCmds, nEvents, seen, nLoads >>

\* line 583: USER_COUNTERS.lock().unwrap().clear()
UnloadClearCounters ==
    /\ Running
    /\ hostPc = "u_counters"
    /\ storeLock["counters"] = 0
    /\ userCounters' = << >>
    /\ hostPc' = "u_unbind"
    /\ UNCHANGED << regptr, registry, regState, counters, gauges, heap,
                    userGauges, storeLock, eventNodeIds, subs, nextNode,
                    unbound, apis, hostReg, pc, task, loc, out, pre, derefNull, crashed, nCmds, nEvents, seen, nLoads >>

Range(f) == { f[x] : x \in DOMAIN f }

\* an unload that unbinds the recorded ids and leaves them in the ledger
UnloadUnbindKeep ==
    /\ Running
    /\ hostPc = "u_unbind"
    /\ subs' = [i \in DOMAIN subs \ Range(eventNodeIds) |-> subs[i]]
    /\ unbound' = unbound \o eventNodeIds
    /\ hostPc' = "u_stop"
    /\ UNCHANGED << regptr, registry, regState, counters, gauges, heap,
                    userCounters, userGauges, storeLock, nextNode, apis,
                    eventNodeIds, hostReg, pc, task, loc, out, pre, derefNull,
                    crashed, nCmds, nEvents, seen, nLoads >>

\* lines 584-590: event_unbind every recorded id, then clear the ledger
UnloadUnbind ==
    /\ Running
    /\ hostPc = "u_unbind"
    /\ subs' = [i \in DOMAIN subs \ Range(eventNodeIds) |-> subs[i]]
    /\ unbound' = unbound \o eventNodeIds
    /\ eventNodeIds' = << >>
    /\ hostPc' = "u_stop"
    /\ UNCHANGED << regptr, registry, regState, counters, gauges, heap,
                    userCounters, userGauges, storeLock, nextNode, apis,
                    hostReg, pc, task, loc, out, pre, derefNull,
                    crashed, nCmds, nEvents, seen, nLoads >>

\* line 592: Registry::stop(&reg).  With reg null this dereferences a null
\* reference: the process traps, or it reads garbage and goes on.
UnloadStop ==
    /\ Running
    /\ hostPc = "u_stop"
    /\ hostPc' = "u_reset"
    /\ IF hostReg = "NULL"
       THEN /\ derefNull' = derefNull \cup {"prometheus_unload"}
            /\ crashed' \in BOOLEAN
            /\ UNCHANGED regState
       ELSE /\ regState' = "stopped"
            /\ UNCHANGED << derefNull, crashed >>
    /\ UNCHANGED << regptr, registry, counters, gauges, heap, userCounters,
                    userGauges, storeLock, eventNodeIds, subs, nextNode,
                    unbound, apis, hostReg, pc, task, loc, out, pre, nCmds, nEvents, seen, nLoads >>

\* lines 594-598: REGPTR = 0
UnloadReset ==
    /\ Running
    /\ hostPc = "u_reset"
    /\ regptr' = "NULL"
    /\ hostPc' = "idle"
    /\ UNCHANGED << registry, regState, counters, gauges, heap, userCounters,
                    userGauges, storeLock, eventNodeIds, subs, nextNode,
                    unbound, apis, hostReg, pc, task, loc, out, pre, derefNull, crashed, nCmds, nEvents, seen, nLoads >>


\* ------------------------------------------------------ dynamic commands
\* metric names the commands are given: an ordinary one and the name of a
\* built-in counter
UserNames == {"m", COUNTERS[1]}

\* value tokens: none, text that is no number, a negative and a positive number
ValTokens == {Absent, Bad, Num(-1), Num(MaxVal)}

ApiOps == {"counter_increment", "gauge_set", "gauge_increment", "gauge_decrement"}
AppOps == {"gauge_increment_app"}

\* a command as the host passes it: a null pointer, or "<name>[ <value>]"
Commands ==
    { [NoTask EXCEPT !.kind = "cmd", !.op = o, !.name = n, !.tok = v] :
        o \in ApiOps \cup AppOps, n \in UserNames, v \in ValTokens }
    \cup { [NoTask EXCEPT !.kind = "cmd", !.op = o, !.null = TRUE] :
             o \in ApiOps \cup AppOps }

\* a parser whose default value is 0
parse_metric_api_args_zero(cmd) ==
    IF cmd.null
    THEN [some |-> FALSE, name |-> "", val |-> 0, msg |-> "Invalid arguments"]
    ELSE IF cmd.tok.present
         THEN IF cmd.tok.num
              THEN [some |-> TRUE, name |-> cmd.name, val |-> cmd.tok.v,
                    msg |-> ""]
              ELSE [some |-> FALSE, name |-> "", val |-> 0,
                    msg |-> "Invalid metric value"]
         ELSE [some |-> TRUE, name |-> cmd.name, val |-> 0, msg |-> ""]

\* a parser that reads a token it cannot parse as 0
parse_metric_api_args_lenient(cmd) ==
    IF cmd.null
    THEN [some |-> FALSE, name |-> "", val |-> 0, msg |-> "Invalid arguments"]
    ELSE IF cmd.tok.present
         THEN [some |-> TRUE, name |-> cmd.name,
               val |-> IF cmd.tok.num THEN cmd.tok.v ELSE 0, msg |-> ""]
         ELSE [some |-> TRUE, name |-> cmd.name, val |-> 1, msg |-> ""]

\* parse_metric_api_args: None for a null command or a second token that is
\* not an f64, else the name and the value (1 when there is no second token)
parse_metric_api_args(cmd) ==
    IF cmd.null
    THEN [some |-> FALSE, name |-> "", val |-> 0, msg |-> "Invalid arguments"]
    ELSE IF cmd.tok.present
         THEN IF cmd.tok.num
              THEN [some |-> TRUE, name |-> cmd.name, val |-> cmd.tok.v,
                    msg |-> ""]
              ELSE [some |-> FALSE, name |-> "", val |-> 0,
                    msg |-> "Invalid metric value"]
         ELSE [some |-> TRUE, name |-> cmd.name, val |-> 1, msg |-> ""]

\* Counter::new / Gauge::new(name, name): a zero-valued metric
NewMetric(kind, name) == [kind |-> kind, name |-> name, v |-> 0]

\* Counter::increment_by, Gauge::increment_by: add the delta
IncrementBy(m, delta) == [m EXCEPT !.v = m.v + delta]

\* Gauge::decrement_by
DecrementBy(m, delta) == [m EXCEPT !.v = m.v - delta]

\* Gauge::set
SetTo(m, val) == [m EXCEPT !.v = val]

\* a store whose Mutex excludes nobody
StoreLockNeverHeld(s) == TRUE

\* the Mutex of a dynamic store can be taken
StoreLockFree(s) == storeLock[s] = 0

\* entry of counter_increment_api, gauge_*_api and gauge_increment_app: parse
\* the arguments; return FALSE (the application: return) when that fails
InvokeFrom(t, cmds) ==
    /\ Running
    /\ pc[t] = "idle"
    /\ nCmds' = nCmds + 1
    /\ \E cmd \in cmds :
         LET a == parse_metric_api_args(cmd) IN
         /\ IF a.some
            THEN /\ task' = [task EXCEPT ![t] = cmd]
                 /\ loc' = [loc EXCEPT ![t] = [NoLoc EXCEPT !.name = a.name,
                                                            !.val = a.val]]
                 /\ pc' = [pc EXCEPT ![t] = IF cmd.op = "counter_increment"
                                            THEN "c_lock" ELSE "g_lock"]
                 /\ UNCHANGED out
            ELSE /\ UNCHANGED << task, loc >>
                 /\ pc' = pc
                 /\ out' = [NoOut EXCEPT !.op = cmd.op,
                                          !.msg = a.msg,
                                          !.status = IF cmd.op \in AppOps
                                                     THEN "logged" ELSE "FALSE"]
    /\ UNCHANGED << regptr, registry, regState, counters, gauges, heap,
                    userCounters, userGauges, storeLock, eventNodeIds, subs,
                    nextNode, unbound, apis, hostPc, hostReg, pre, derefNull, crashed, nEvents, seen, nLoads >>

\* the same, for any command the host can pass
Invoke(t) == InvokeFrom(t, Commands)

\* the host dispatches a command only to an API the module has added
ApiDispatch(t) == apis /\ nCmds < MaxCmds /\ Invoke(t)

\* a command function entered at any moment of the module's life
CmdEnter(t) == nCmds < MaxLifeCmds /\ Invoke(t)

\* counter_increment_api, lines 490-491: take USER_COUNTERS, look the name up
CounterLock(t) ==
    /\ Running
    /\ pc[t] = "c_lock"
    /\ StoreLockFree("counters")
    /\ storeLock' = [storeLock EXCEPT !["counters"] = t]
    /\ pc' = [pc EXCEPT ![t] = IF loc[t].name \in DOMAIN userCounters
                               THEN "c_incr" ELSE "c_create"]
    /\ UNCHANGED << regptr, registry, regState, counters, gauges, heap,
                    userCounters, userGauges, eventNodeIds, subs, nextNode,
                    unbound, apis, hostPc, hostReg, task, loc, out, pre, derefNull, crashed, nCmds, nEvents, seen, nLoads >>

\* lines 492-495: create the counter, insert it, and
\* (&*REGPTR).lock().unwrap().register_counter(counter), all inside the store's
\* critical section.  With REGPTR null the last dereferences null: the
\* process traps, or goes on having registered nothing.
CounterCreate(t) ==
    /\ Running
    /\ pc[t] = "c_create"
    /\ heap' = Append(heap, NewMetric("counter", loc[t].name))
    /\ userCounters' = [n \in DOMAIN userCounters \cup {loc[t].name} |->
                          IF n = loc[t].name THEN Len(heap) + 1
                          ELSE userCounters[n]]
    /\ pc' = [pc EXCEPT ![t] = "c_incr"]
    /\ IF regptr = "NULL"
       THEN /\ derefNull' = derefNull \cup {"counter_increment_api"}
            /\ crashed' \in BOOLEAN
            /\ UNCHANGED registry
       ELSE /\ registry' = Append(registry,
                                  RegEntry("counter", loc[t].name, Len(heap) + 1))
            /\ UNCHANGED << derefNull, crashed >>
    /\ UNCHANGED << regptr, regState, counters, gauges, userGauges, storeLock,
                    eventNodeIds, subs, nextNode, unbound, apis, hostPc,
                    hostReg, task, loc, out, pre, nCmds, nEvents, seen, nLoads >>

\* a counter_increment that returns with USER_COUNTERS still locked
CounterIncrKeepLock(t) ==
    /\ Running
    /\ pc[t] = "c_incr"
    /\ pc' = [pc EXCEPT ![t] = "idle"]
    /\ UNCHANGED storeLock
    /\ IF loc[t].name \in DOMAIN userCounters
       THEN LET i == userCounters[loc[t].name]
                m == IncrementBy(heap[i], loc[t].val)
            IN  /\ heap' = [heap EXCEPT ![i] = m]
                /\ out' = [NoOut EXCEPT !.op = task[t].op, !.status = "SUCCESS",
                                         !.v = m.v]
                /\ UNCHANGED crashed
       ELSE /\ crashed' = TRUE
            /\ UNCHANGED << heap, out >>
    /\ task' = [task EXCEPT ![t] = NoTask]
    /\ loc' = [loc EXCEPT ![t] = NoLoc]
    /\ UNCHANGED << regptr, registry, regState, counters, gauges, userCounters,
                    userGauges, eventNodeIds, subs, nextNode, unbound, apis,
                    hostPc, hostReg, pre, derefNull, nCmds, nEvents, seen, nLoads >>

\* lines 497-501: v = counters[&name].increment_by(val), release the store,
\* write "+OK v", return SUCCESS.  Indexing a missing key panics.
CounterIncr(t) ==
    /\ Running
    /\ pc[t] = "c_incr"
    /\ pc' = [pc EXCEPT ![t] = "idle"]
    /\ storeLock' = [storeLock EXCEPT !["counters"] = 0]
    /\ IF loc[t].name \in DOMAIN userCounters
       THEN LET i == userCounters[loc[t].name]
                m == IncrementBy(heap[i], loc[t].val)
            IN  /\ heap' = [heap EXCEPT ![i] = m]
                /\ out' = [NoOut EXCEPT !.op = task[t].op, !.status = "SUCCESS",
                                         !.v = m.v]
                /\ UNCHANGED crashed
       ELSE /\ crashed' = TRUE
            /\ UNCHANGED << heap, out >>
    /\ task' = [task EXCEPT ![t] = NoTask]
    /\ loc' = [loc EXCEPT ![t] = NoLoc]
    /\ UNCHANGED << regptr, registry, regState, counters, gauges, userCounters,
                    userGauges, eventNodeIds, subs, nextNode, unbound, apis,
                    hostPc, hostReg, pre, derefNull, nCmds, nEvents, seen, nLoads >>

\* gauge_get, lines 505-507: take USER_GAUGES; a known name returns its gauge
GaugeLock(t) ==
    /\ Running
    /\ pc[t] = "g_lock"
    /\ StoreLockFree("gauges")
    /\ IF loc[t].name \in DOMAIN userGauges
       THEN /\ loc' = [loc EXCEPT ![t].inst = userGauges[loc[t].name]]
            /\ pc' = [pc EXCEPT ![t] = "g_op"]
            /\ UNCHANGED storeLock
       ELSE /\ storeLock' = [storeLock EXCEPT !["gauges"] = t]
            /\ pc' = [pc EXCEPT ![t] = "g_create"]
            /\ UNCHANGED loc
    /\ UNCHANGED << regptr, registry, regState, counters, gauges, heap,
                    userCounters, userGauges, eventNodeIds, subs, nextNode,
                    unbound, apis, hostPc, hostReg, task, out, pre, derefNull, crashed, nCmds, nEvents, seen, nLoads >>

\* gauge_get, lines 509-514: create the gauge, insert it, register it through
\* REGPTR (null: as in CounterCreate), release the store and return the gauge
GaugeCreate(t) ==
    /\ Running
    /\ pc[t] = "g_create"
    /\ heap' = Append(heap, NewMetric("gauge", loc[t].name))
    /\ userGauges' = [n \in DOMAIN userGauges \cup {loc[t].name} |->
                        IF n = loc[t].name THEN Len(heap) + 1 ELSE userGauges[n]]
    /\ loc' = [loc EXCEPT ![t].inst = Len(heap) + 1]
    /\ pc' = [pc EXCEPT ![t] = "g_op"]
    /\ storeLock' = [storeLock EXCEPT !["gauges"] = 0]
    /\ IF regptr = "NULL"
       THEN /\ derefNull' = derefNull \cup {"gauge_get"}
            /\ crashed' \in BOOLEAN
            /\ UNCHANGED registry
       ELSE /\ registry' = Append(registry,
                                  RegEntry("gauge", loc[t].name, Len(heap) + 1))
            /\ UNCHANGED << derefNull, crashed >>
    /\ UNCHANGED << regptr, regState, counters, gauges, userCounters,
                    eventNodeIds, subs, nextNode, unbound, apis, hostPc,
                    hostReg, task, out, pre, nCmds, nEvents, seen, nLoads >>

\* gauge commands that stop a decrement at zero
GaugeApplyFloored(op, m, val) ==
    IF op = "gauge_set" THEN SetTo(m, val)
    ELSE IF op = "gauge_decrement"
         THEN IF m.v - val < 0 THEN SetTo(m, 0) ELSE DecrementBy(m, val)
         ELSE IncrementBy(m, val)

\* the operation each gauge command applies to the gauge it got
GaugeApply(op, m, val) ==
    IF op = "gauge_set" THEN SetTo(m, val)
    ELSE IF op = "gauge_decrement" THEN DecrementBy(m, val)
    ELSE IncrementBy(m, val)

\* gauge_set_api / gauge_increment_api / gauge_decrement_api /
\* gauge_increment_app after gauge_get: apply the operation, report the value
GaugeOp(t) ==
    /\ Running
    /\ pc[t] = "g_op"
    /\ pc' = [pc EXCEPT ![t] = "idle"]
    /\ LET i == loc[t].inst
           m == GaugeApply(task[t].op, heap[i], loc[t].val)
       IN  /\ heap' = [heap EXCEPT ![i] = m]
           /\ out' = [NoOut EXCEPT !.op = task[t].op, !.v = m.v,
                                    !.status = IF task[t].op \in AppOps
                                               THEN "logged" ELSE "SUCCESS"]
    /\ task' = [task EXCEPT ![t] = NoTask]
    /\ loc' = [loc EXCEPT ![t] = NoLoc]
    /\ UNCHANGED << regptr, registry, regState, counters, gauges, userCounters,
                    userGauges, storeLock, eventNodeIds, subs, nextNode,
                    unbound, apis, hostPc, hostReg, pre, derefNull,
                    crashed, nCmds, nEvents, seen, nLoads >>

CmdStep(t) ==
    \/ CounterLock(t)
    \/ CounterCreate(t)
    \/ CounterIncr(t)
    \/ GaugeLock(t)
    \/ GaugeCreate(t)
    \/ GaugeOp(t)

\* the commands of a loaded module, as the host dispatches them
NextCmd ==
    \/ Load
    \/ \E t \in Threads : ApiDispatch(t)
    \/ \E t \in Threads : CmdStep(t)

SpecCmd == Init /\ [][NextCmd]_vars



\* ---------------------------------------------------------------- events
\* value of the Call-Direction header ("absent": the event has none)
Dirs == {"inbound", "outbound", "other", "absent"}

\* values of the Hangup-Cause header
Causes == {"NORMAL_CLEARING", "USER_BUSY", "absent"}

\* values of variable_billsec: none, text that is no u64, 0 .. MaxBill
BillTokens == {Absent, Bad} \cup { Num(b) : b \in 0 .. MaxBill }

Event(kind, dir) == [NoTask EXCEPT !.kind = "event", !.op = kind, !.dir = dir]

AsrEvents ==
    { Event(k, d) : k \in {"CHANNEL_CREATE", "CHANNEL_ANSWER"}, d \in Dirs }

AcdEvents ==
    { [Event("CHANNEL_HANGUP_COMPLETE", d) EXCEPT !.cause = c, !.bill = b] :
        d \in Dirs, c \in Causes, b \in BillTokens }

\* the Caller-Channel-Answered-Time header of a channel-hangup event: absent,
\* not an i64, zero, or a time
AnsTokens == {Absent, Bad, Num(0), Num(1)}

HangupEvents ==
    { [Event("CHANNEL_HANGUP", d) EXCEPT !.ans = a] : d \in Dirs, a \in AnsTokens }

\* the events that move the active-sessions gauges
ActiveEvents ==
    { Event(k, d) : k \in {"CHANNEL_CREATE", "CHANNEL_DESTROY"}, d \in Dirs }

\* the custom events of the registrar; their handlers read no header
RegKinds ==
    {"sofia::register_attempt", "sofia::register_failure", "sofia::register",
     "sofia::unregister", "sofia::expire"}

RegEvents == { Event(k, "absent") : k \in RegKinds }

HeartbeatEvents == { Event("HEARTBEAT", "absent") }

\* Counter::increment / increment_by, Gauge::increment / decrement / set and
\* value() on the elements of COUNTERS and GAUGES
CInc(c, id)       == [c EXCEPT ![id] = @ + 1]
CIncBy(c, id, k)  == [c EXCEPT ![id] = @ + k]
GInc(g, id)       == [g EXCEPT ![id] = FAdd(@, 1)]
GDec(g, id)       == [g EXCEPT ![id] = FAdd(@, -1)]
GSet(g, id, r)    == [g EXCEPT ![id] = r]

\* the metrics each branch of the CHANNEL_CREATE handler names (lines 238-249)
CreateActive(dir) ==
    IF dir = "inbound" THEN "SessionsActiveInbound" ELSE "SessionsActiveOutbound"
CreateCreated(dir) ==
    IF dir = "inbound" THEN "SessionsInboundCreated" ELSE "SessionsOutboundCreated"
\* the answered counter of the wrong branch
CreateAnsweredSwapped(dir) ==
    IF dir = "inbound" THEN "SessionsOutboundAnswered"
    ELSE "SessionsInboundAnswered"

CreateAnswered(dir) ==
    IF dir = "inbound" THEN "SessionsInboundAnswered"
    ELSE "SessionsOutboundAnswered"
CreateASR(dir) ==
    IF dir = "inbound" THEN "SessionsInboundASR" ELSE "SessionsOutboundASR"

\* the metrics each branch of the CHANNEL_ANSWER handler names (lines 262-271)
AnswerAnswered(dir) ==
    IF dir = "inbound" THEN "SessionsInboundAnswered"
    ELSE "SessionsOutboundAnswered"
AnswerCreated(dir) ==
    IF dir = "inbound" THEN "SessionsInboundCreated" ELSE "SessionsOutboundCreated"
\* the ASR gauge of the wrong branch
AnswerASRSwapped(dir) ==
    IF dir = "inbound" THEN "SessionsOutboundASR" ELSE "SessionsInboundASR"

AnswerASR(dir) ==
    IF dir = "inbound" THEN "SessionsInboundASR" ELSE "SessionsOutboundASR"

\* the metrics each branch of the CHANNEL_HANGUP_COMPLETE handler names
\* (lines 344-366)
HupDuration(dir) ==
    IF dir = "outbound" THEN "SessionsOutboundCallDurationTotal"
    ELSE "SessionsInboundCallDurationTotal"
\* the hangup-complete counter of the wrong branch
HupCompleteSwapped(dir) ==
    IF dir = "outbound" THEN "SessionsInboundCallHangupComplete"
    ELSE "SessionsOutboundCallHangupComplete"

HupComplete(dir) ==
    IF dir = "outbound" THEN "SessionsOutboundCallHangupComplete"
    ELSE "SessionsInboundCallHangupComplete"
HupACD(dir) ==
    IF dir = "outbound" THEN "SessionsOutboundACD" ELSE "SessionsInboundACD"

\* a handler that does not look at Hangup-Cause
HupUpdatesAnyCause(e) ==
    /\ e.bill.present
    /\ e.bill.num
    /\ e.dir \in {"outbound", "inbound"}

\* CHANNEL_HANGUP_COMPLETE, lines 335-344 and 357: the event gets past the
\* header tests to one of the two metric-updating branches
HupUpdates(e) ==
    /\ e.cause = "NORMAL_CLEARING"
    /\ e.bill.present
    /\ e.bill.num
    /\ e.dir \in {"outbound", "inbound"}

\* the hangup-complete events that reach the ACD recomputation, with the
\* shortest and the longest billsec
DivisionEvents ==
    { e \in AcdEvents : HupUpdates(e) /\ e.bill.v \in {0, MaxBill} }

\* where a handler begins; "idle" when it returns without a metric operation
EntryPc(e) ==
    IF e.op = "CHANNEL_CREATE" THEN "cr_global"
    ELSE IF e.op = "CHANNEL_ANSWER" THEN "an_global"
    ELSE IF e.op = "CHANNEL_HANGUP_COMPLETE" /\ HupUpdates(e) THEN "hc_total"
    ELSE IF e.op = "CHANNEL_HANGUP" THEN "hu_count"
    ELSE IF e.op = "CHANNEL_DESTROY" THEN "ds_global"
    ELSE IF e.op = "HEARTBEAT" THEN "hb_inc"
    ELSE IF e.op = "sofia::register_attempt" THEN "ra_inc"
    ELSE IF e.op = "sofia::register_failure" THEN "rf_inc"
    ELSE IF e.op = "sofia::register" THEN "rg_count"
    ELSE IF e.op = "sofia::unregister" THEN "ur_dec"
    ELSE IF e.op = "sofia::expire" THEN "ex_dec"
    ELSE "idle"

\* the events of one kind and direction delivered so far, and the tally after
\* one more
Seen(kind, dir) ==
    IF <<kind, dir>> \in DOMAIN seen THEN seen[<<kind, dir>>] ELSE 0

Count(kind, dir) ==
    [k \in DOMAIN seen \cup {<<kind, dir>>} |->
        IF k = <<kind, dir>> THEN Seen(kind, dir) + 1 ELSE seen[k]]

Bound(kind) == \E id \in DOMAIN subs : subs[id] = kind

\* the built-in metrics a step leaves behind
Metrics(c2, g2) == counters' = c2 /\ gauges' = g2

ZeroMetrics == [c |-> [c \in CounterIds |-> 0], g |-> [g \in GaugeIds |-> F(0)]]

\* what a returning handler leaves behind
Return(t) ==
    /\ pc' = [pc EXCEPT ![t] = "idle"]
    /\ task' = [task EXCEPT ![t] = NoTask]
    /\ loc' = [loc EXCEPT ![t] = NoLoc]
    /\ pre' = [pre EXCEPT ![t] = ZeroMetrics]
    /\ out' = [NoOut EXCEPT !.op = task[t].op, !.dir = task[t].dir]

\* the host invokes the handler bound for the kind of event e on thread t;
\* snap is what pre[t] records
Dispatch(t, e, snap) ==
    /\ Running
    /\ pc[t] = "idle"
    /\ Bound(e.op)
    /\ nEvents' = nEvents + 1
    /\ seen' = Count(e.op, e.dir)
    /\ IF EntryPc(e) = "idle"
       THEN /\ out' = [NoOut EXCEPT !.op = e.op, !.dir = e.dir]
            /\ UNCHANGED << pc, task, pre >>
       ELSE /\ pc' = [pc EXCEPT ![t] = EntryPc(e)]
            /\ task' = [task EXCEPT ![t] = e]
            /\ pre' = [pre EXCEPT ![t] = snap]
            /\ UNCHANGED out
    /\ UNCHANGED << lifeVars, storeVars, ubVars, counters, gauges, loc, nCmds >>

\* concurrent delivery: any idle thread, whatever the others are doing
Deliver(t, e) == nEvents < MaxEvents /\ Dispatch(t, e, ZeroMetrics)

\* no thread but t is inside a handler or a command
Serial(t) == \A q \in Threads \ {t} : pc[q] = "idle"

\* serial delivery: the host delivers the next event when the last has returned
DeliverSerial(t, e) ==
    /\ nEvents < MaxSerial
    /\ Serial(t)
    /\ Dispatch(t, e, [c |-> counters, g |-> gauges])

\* CHANNEL_CREATE, lines 236-237 and 250-254
CreateGlobal(t) ==
    /\ Running
    /\ pc[t] = "cr_global"
    /\ IF task[t].dir \in {"inbound", "outbound"}
       THEN /\ pc' = [pc EXCEPT ![t] = "cr_active"]
            /\ UNCHANGED << task, loc, pre, out >>
       ELSE Return(t)
    /\ Metrics(CInc(counters, "SessionsCreated"), gauges)
    /\ UNCHANGED << lifeVars, storeVars, ubVars, nCmds, nEvents, seen >>

\* lines 239 / 245
CreateActiveInc(t) ==
    /\ Running
    /\ pc[t] = "cr_active"
    /\ pc' = [pc EXCEPT ![t] = "cr_created"]
    /\ Metrics(counters, GInc(gauges, CreateActive(task[t].dir)))
    /\ UNCHANGED << lifeVars, storeVars, ubVars, task, loc, pre, out, nCmds,
                    nEvents, seen >>

\* lines 240 / 246
CreateCreatedInc(t) ==
    /\ Running
    /\ pc[t] = "cr_created"
    /\ pc' = [pc EXCEPT ![t] = "cr_total"]
    /\ Metrics(CInc(counters, CreateCreated(task[t].dir)), gauges)
    /\ UNCHANGED << lifeVars, storeVars, ubVars, task, loc, pre, out, nCmds,
                    nEvents, seen >>

\* lines 241 / 247: let total = created.value()
CreateReadTotal(t) ==
    /\ Running
    /\ pc[t] = "cr_total"
    /\ pc' = [pc EXCEPT ![t] = "cr_asr"]
    /\ loc' = [loc EXCEPT ![t].b = counters[CreateCreated(task[t].dir)]]
    /\ UNCHANGED << lifeVars, storeVars, ubVars, counters, gauges, task, pre,
                    out, nCmds, nEvents, seen >>

\* lines 242 / 248: let asr = answered.value() / total
CreateComputeAsr(t) ==
    /\ Running
    /\ pc[t] = "cr_asr"
    /\ pc' = [pc EXCEPT ![t] = "cr_set"]
    /\ loc' = [loc EXCEPT ![t].a = counters[CreateAnswered(task[t].dir)],
                          ![t].r = FDiv(counters[CreateAnswered(task[t].dir)],
                                        loc[t].b)]
    /\ UNCHANGED << lifeVars, storeVars, ubVars, counters, gauges, task, pre,
                    out, nCmds, nEvents, seen >>

\* lines 243 / 249: asr_gauge.set(asr)
CreateSetAsr(t) ==
    /\ Running
    /\ pc[t] = "cr_set"
    /\ Return(t)
    /\ Metrics(counters, GSet(gauges, CreateASR(task[t].dir), loc[t].r))
    /\ UNCHANGED << lifeVars, storeVars, ubVars, nCmds, nEvents, seen >>

\* CHANNEL_ANSWER, lines 260-261 and 272-276
AnswerGlobal(t) ==
    /\ Running
    /\ pc[t] = "an_global"
    /\ IF task[t].dir \in {"inbound", "outbound"}
       THEN /\ pc' = [pc EXCEPT ![t] = "an_answered"]
            /\ UNCHANGED << task, loc, pre, out >>
       ELSE Return(t)
    /\ Metrics(CInc(counters, "SessionsAnswered"), gauges)
    /\ UNCHANGED << lifeVars, storeVars, ubVars, nCmds, nEvents, seen >>

\* lines 263 / 268
AnswerAnsweredInc(t) ==
    /\ Running
    /\ pc[t] = "an_answered"
    /\ pc' = [pc EXCEPT ![t] = "an_read"]
    /\ Metrics(CInc(counters, AnswerAnswered(task[t].dir)), gauges)
    /\ UNCHANGED << lifeVars, storeVars, ubVars, task, loc, pre, out, nCmds,
                    nEvents, seen >>

\* lines 264 / 269: let answered = answered.value()
AnswerReadAnswered(t) ==
    /\ Running
    /\ pc[t] = "an_read"
    /\ pc' = [pc EXCEPT ![t] = "an_asr"]
    /\ loc' = [loc EXCEPT ![t].a = counters[AnswerAnswered(task[t].dir)]]
    /\ UNCHANGED << lifeVars, storeVars, ubVars, counters, gauges, task, pre,
                    out, nCmds, nEvents, seen >>

\* lines 265 / 270: let asr = answered / created.value()
AnswerComputeAsr(t) ==
    /\ Running
    /\ pc[t] = "an_asr"
    /\ pc' = [pc EXCEPT ![t] = "an_set"]
    /\ loc' = [loc EXCEPT ![t].b = counters[AnswerCreated(task[t].dir)],
                          ![t].r = FDiv(loc[t].a,
                                        counters[AnswerCreated(task[t].dir)])]
    /\ UNCHANGED << lifeVars, storeVars, ubVars, counters, gauges, task, pre,
                    out, nCmds, nEvents, seen >>

\* lines 266 / 271: asr_gauge.set(asr)
AnswerSetAsr(t) ==
    /\ Running
    /\ pc[t] = "an_set"
    /\ Return(t)
    /\ Metrics(counters, GSet(gauges, AnswerASR(task[t].dir), loc[t].r))
    /\ UNCHANGED << lifeVars, storeVars, ubVars, nCmds, nEvents, seen >>

\* CHANNEL_HANGUP_COMPLETE, lines 341-345 / 359:
\* duration_total.increment_by(bill_seconds as f64)
HupAddDuration(t) ==
    /\ Running
    /\ pc[t] = "hc_total"
    /\ pc' = [pc EXCEPT ![t] = "hc_count"]
    /\ Metrics(CIncBy(counters, HupDuration(task[t].dir),
                         U64AsF64(task[t].bill.v)), gauges)
    /\ UNCHANGED << lifeVars, storeVars, ubVars, task, loc, pre, out, nCmds,
                    nEvents, seen >>

\* a handler that goes on to the division without counting the hangup
HupCountSkip(t) ==
    /\ Running
    /\ pc[t] = "hc_count"
    /\ pc' = [pc EXCEPT ![t] = "hc_seconds"]
    /\ UNCHANGED << lifeVars, storeVars, ubVars, counters, gauges, task, loc,
                    pre, out, nCmds, nEvents, seen >>

\* lines 346 / 360: hangup_complete.increment()
HupCountInc(t) ==
    /\ Running
    /\ pc[t] = "hc_count"
    /\ pc' = [pc EXCEPT ![t] = "hc_seconds"]
    /\ Metrics(CInc(counters, HupComplete(task[t].dir)), gauges)
    /\ UNCHANGED << lifeVars, storeVars, ubVars, task, loc, pre, out, nCmds,
                    nEvents, seen >>

\* lines 348 / 362: let totalSeconds: u64 = duration_total.value() as u64
HupReadSeconds(t) ==
    /\ Running
    /\ pc[t] = "hc_seconds"
    /\ pc' = [pc EXCEPT ![t] = "hc_hup"]
    /\ loc' = [loc EXCEPT ![t].a = F64AsU64(counters[HupDuration(task[t].dir)])]
    /\ UNCHANGED << lifeVars, storeVars, ubVars, counters, gauges, task, pre,
                    out, nCmds, nEvents, seen >>

\* lines 349-350 / 363-364: let totalHup: u64 = hangup_complete.value() as u64;
\* let acd = totalSeconds / totalHup, which panics when totalHup is 0
HupComputeAcd(t) ==
    /\ Running
    /\ pc[t] = "hc_hup"
    /\ pc' = [pc EXCEPT ![t] = "hc_set"]
    /\ LET hup == F64AsU64(counters[HupComplete(task[t].dir)]) IN
       IF hup = 0
       THEN /\ crashed' = TRUE
            /\ loc' = [loc EXCEPT ![t].b = 0]
       ELSE /\ loc' = [loc EXCEPT ![t].b = hup,
                                  ![t].r = F(U64AsF64(U64Div(loc[t].a, hup)))]
            /\ UNCHANGED crashed
    /\ UNCHANGED << lifeVars, storeVars, derefNull, counters, gauges, task, pre,
                    out, nCmds, nEvents, seen >>

\* lines 352 / 366: acd_gauge.set(acd as f64)
HupSetAcd(t) ==
    /\ Running
    /\ pc[t] = "hc_set"
    /\ Return(t)
    /\ Metrics(counters, GSet(gauges, HupACD(task[t].dir), loc[t].r))
    /\ UNCHANGED << lifeVars, storeVars, ubVars, nCmds, nEvents, seen >>

\* CHANNEL_HANGUP, lines 283-287: the counter the first test increments
HangupCounter(dir) ==
    IF dir = "inbound" THEN "SessionsInboundCallHangup"
    ELSE "SessionsOutboundCallHangup"

\* a handler that counts a failed call under the other direction
HangupFailedSwapped(dir) ==
    IF dir = "inbound" THEN "SessionsOutboundFailed" ELSE "SessionsInboundFailed"

\* lines 296-299: the directional failed counter
HangupFailed(dir) ==
    IF dir = "inbound" THEN "SessionsInboundFailed" ELSE "SessionsOutboundFailed"

\* lines 290-295: the answered time is there, parses as i64 and is zero, and
\* the event has a Call-Direction
HangupIsFailure(e) ==
    /\ e.ans.present
    /\ e.ans.num
    /\ e.ans.v = 0
    /\ e.dir # "absent"

\* CHANNEL_HANGUP, lines 282-295 and 304-312
HangupCount(t) ==
    /\ Running
    /\ pc[t] = "hu_count"
    /\ Metrics(IF task[t].dir # "absent"
               THEN CInc(counters, HangupCounter(task[t].dir))
               ELSE counters, gauges)
    /\ IF HangupIsFailure(task[t])
       THEN /\ pc' = [pc EXCEPT ![t] = "hu_failed"]
            /\ UNCHANGED << task, loc, pre, out >>
       ELSE Return(t)
    /\ UNCHANGED << lifeVars, storeVars, ubVars, nCmds, nEvents, seen >>

\* a hangup handler that counts a failed call in the global counter only
HangupDirFailedSkip(t) ==
    /\ Running
    /\ pc[t] = "hu_failed"
    /\ pc' = [pc EXCEPT ![t] = "hu_global"]
    /\ UNCHANGED << lifeVars, storeVars, ubVars, counters, gauges, task, loc,
                    pre, out, nCmds, nEvents, seen >>

\* lines 296-302
HangupDirFailed(t) ==
    /\ Running
    /\ pc[t] = "hu_failed"
    /\ pc' = [pc EXCEPT ![t] = "hu_global"]
    /\ Metrics(IF task[t].dir \in {"inbound", "outbound"}
               THEN CInc(counters, HangupFailed(task[t].dir))
               ELSE counters, gauges)
    /\ UNCHANGED << lifeVars, storeVars, ubVars, task, loc, pre, out, nCmds,
                    nEvents, seen >>

\* line 303
HangupGlobalFailed(t) ==
    /\ Running
    /\ pc[t] = "hu_global"
    /\ Metrics(CInc(counters, "SessionsFailed"), gauges)
    /\ Return(t)
    /\ UNCHANGED << lifeVars, storeVars, ubVars, nCmds, nEvents, seen >>

HangupStep(t) ==
    \/ HangupCount(t)
    \/ HangupDirFailed(t)
    \/ HangupGlobalFailed(t)

\* a handler that decrements the other direction's gauge
DestroyActiveSwapped(dir) ==
    IF dir = "inbound" THEN "SessionsActiveOutbound" ELSE "SessionsActiveInbound"

\* CHANNEL_DESTROY, lines 390-393: the gauge the handler decrements
DestroyActive(dir) ==
    IF dir = "inbound" THEN "SessionsActiveInbound" ELSE "SessionsActiveOutbound"

\* a destroy handler that takes a missing Call-Direction for a direction
DestroyGlobalAnyDir(t) ==
    /\ Running
    /\ pc[t] = "ds_global"
    /\ pc' = [pc EXCEPT ![t] = "ds_active"]
    /\ Metrics(CInc(counters, "SessionsDestroyed"), gauges)
    /\ UNCHANGED << lifeVars, storeVars, ubVars, task, loc, pre, out, nCmds,
                    nEvents, seen >>

\* CHANNEL_DESTROY, lines 387-389 and 394
DestroyGlobal(t) ==
    /\ Running
    /\ pc[t] = "ds_global"
    /\ IF task[t].dir \in {"inbound", "outbound"}
       THEN /\ pc' = [pc EXCEPT ![t] = "ds_active"]
            /\ UNCHANGED << task, loc, pre, out >>
       ELSE Return(t)
    /\ Metrics(CInc(counters, "SessionsDestroyed"), gauges)
    /\ UNCHANGED << lifeVars, storeVars, ubVars, nCmds, nEvents, seen >>

\* lines 390-393
DestroyActiveDec(t) ==
    /\ Running
    /\ pc[t] = "ds_active"
    /\ Metrics(counters, GDec(gauges, DestroyActive(task[t].dir)))
    /\ Return(t)
    /\ UNCHANGED << lifeVars, storeVars, ubVars, nCmds, nEvents, seen >>

DestroyStep(t) ==
    \/ DestroyGlobal(t)
    \/ DestroyActiveDec(t)

CreateStep(t) ==
    \/ CreateGlobal(t)
    \/ CreateActiveInc(t)
    \/ CreateCreatedInc(t)
    \/ CreateReadTotal(t)
    \/ CreateComputeAsr(t)
    \/ CreateSetAsr(t)

\* a heartbeat handler that stores 1 whatever the counter holds
HeartbeatStore(t) ==
    /\ Running
    /\ pc[t] = "hb_inc"
    /\ Metrics([counters EXCEPT !["Heartbeats"] = 1], gauges)
    /\ Return(t)
    /\ UNCHANGED << lifeVars, storeVars, ubVars, nCmds, nEvents, seen >>

\* HEARTBEAT, line 230
HeartbeatInc(t) ==
    /\ Running
    /\ pc[t] = "hb_inc"
    /\ Metrics(CInc(counters, "Heartbeats"), gauges)
    /\ Return(t)
    /\ UNCHANGED << lifeVars, storeVars, ubVars, nCmds, nEvents, seen >>

\* sofia::register_attempt, line 403
RegAttemptInc(t) ==
    /\ Running
    /\ pc[t] = "ra_inc"
    /\ Metrics(CInc(counters, "RegistrationAttempts"), gauges)
    /\ Return(t)
    /\ UNCHANGED << lifeVars, storeVars, ubVars, nCmds, nEvents, seen >>

\* sofia::register_failure, line 409
RegFailureInc(t) ==
    /\ Running
    /\ pc[t] = "rf_inc"
    /\ Metrics(CInc(counters, "RegistrationFailures"), gauges)
    /\ Return(t)
    /\ UNCHANGED << lifeVars, storeVars, ubVars, nCmds, nEvents, seen >>

\* sofia::register, line 415
RegisterCount(t) ==
    /\ Running
    /\ pc[t] = "rg_count"
    /\ pc' = [pc EXCEPT ![t] = "rg_active"]
    /\ Metrics(CInc(counters, "Registrations"), gauges)
    /\ UNCHANGED << lifeVars, storeVars, ubVars, task, loc, pre, out, nCmds,
                    nEvents, seen >>

\* sofia::register, line 416
RegisterActiveInc(t) ==
    /\ Running
    /\ pc[t] = "rg_active"
    /\ Metrics(counters, GInc(gauges, "RegistrationsActive"))
    /\ Return(t)
    /\ UNCHANGED << lifeVars, storeVars, ubVars, nCmds, nEvents, seen >>

\* sofia::unregister, line 421
UnregisterDec(t) ==
    /\ Running
    /\ pc[t] = "ur_dec"
    /\ Metrics(counters, GDec(gauges, "RegistrationsActive"))
    /\ Return(t)
    /\ UNCHANGED << lifeVars, storeVars, ubVars, nCmds, nEvents, seen >>

\* an expire handler that counts the expiry as a registration
ExpireInc(t) ==
    /\ Running
    /\ pc[t] = "ex_dec"
    /\ Metrics(counters, GInc(gauges, "RegistrationsActive"))
    /\ Return(t)
    /\ UNCHANGED << lifeVars, storeVars, ubVars, nCmds, nEvents, seen >>

\* sofia::expire, line 426
ExpireDec(t) ==
    /\ Running
    /\ pc[t] = "ex_dec"
    /\ Metrics(counters, GDec(gauges, "RegistrationsActive"))
    /\ Return(t)
    /\ UNCHANGED << lifeVars, storeVars, ubVars, nCmds, nEvents, seen >>

RegStep(t) ==
    \/ RegAttemptInc(t)
    \/ RegFailureInc(t)
    \/ RegisterCount(t)
    \/ RegisterActiveInc(t)
    \/ UnregisterDec(t)
    \/ ExpireDec(t)

AsrStep(t) ==
    \/ CreateGlobal(t)
    \/ CreateActiveInc(t)
    \/ CreateCreatedInc(t)
    \/ CreateReadTotal(t)
    \/ CreateComputeAsr(t)
    \/ CreateSetAsr(t)
    \/ AnswerGlobal(t)
    \/ AnswerAnsweredInc(t)
    \/ AnswerReadAnswered(t)
    \/ AnswerComputeAsr(t)
    \/ AnswerSetAsr(t)

AcdStep(t) ==
    \/ HupAddDuration(t)
    \/ HupCountInc(t)
    \/ HupReadSeconds(t)
    \/ HupComputeAcd(t)
    \/ HupSetAcd(t)

\* channel-create and channel-answered events of a loaded module, delivered
\* concurrently
NextAsr ==
    \/ Load
    \/ \E t \in Threads, e \in AsrEvents : Deliver(t, e)
    \/ \E t \in Threads : AsrStep(t)

SpecAsr == Init /\ [][NextAsr]_vars

\* the same events, each handled with no other handler interleaved
NextAsrSerial ==
    \/ Load
    \/ \E t \in Threads, e \in AsrEvents : DeliverSerial(t, e)
    \/ \E t \in Threads : AsrStep(t)

SpecAsrSerial == Init /\ [][NextAsrSerial]_vars

\* channel-hangup-complete events of a loaded module, delivered concurrently
NextAcd ==
    \/ Load
    \/ \E t \in Threads, e \in AcdEvents : Deliver(t, e)
    \/ \E t \in Threads : AcdStep(t)

SpecAcd == Init /\ [][NextAcd]_vars

\* the same events, each handled with no other handler interleaved
NextAcdSerial ==
    \/ Load
    \/ \E t \in Threads, e \in AcdEvents : DeliverSerial(t, e)
    \/ \E t \in Threads : AcdStep(t)

SpecAcdSerial == Init /\ [][NextAcdSerial]_vars

\* channel-hangup events of a loaded module, delivered concurrently
NextHangup ==
    \/ Load
    \/ \E t \in Threads, e \in HangupEvents : Deliver(t, e)
    \/ \E t \in Threads : HangupStep(t)

SpecHangup == Init /\ [][NextHangup]_vars

\* the same events, each handled with no other handler interleaved
NextHangupSerial ==
    \/ Load
    \/ \E t \in Threads, e \in HangupEvents : DeliverSerial(t, e)
    \/ \E t \in Threads : HangupStep(t)

SpecHangupSerial == Init /\ [][NextHangupSerial]_vars

\* channel-create and channel-destroy events of a loaded module, delivered
\* concurrently
NextActive ==
    \/ Load
    \/ \E t \in Threads, e \in ActiveEvents : Deliver(t, e)
    \/ \E t \in Threads : CreateStep(t)
    \/ \E t \in Threads : DestroyStep(t)

SpecActive == Init /\ [][NextActive]_vars

\* the registrar's events of a loaded module, delivered concurrently
NextReg ==
    \/ Load
    \/ \E t \in Threads, e \in RegEvents : Deliver(t, e)
    \/ \E t \in Threads : RegStep(t)

SpecReg == Init /\ [][NextReg]_vars

\* hangup-complete events that recompute an ACD, delivered concurrently
NextDivision ==
    \/ Load
    \/ \E t \in Threads, e \in DivisionEvents : Deliver(t, e)
    \/ \E t \in Threads : AcdStep(t)

SpecDivision == Init /\ [][NextDivision]_vars

\* channel-create, channel-answered and channel-destroy events of a loaded
\* module, with a direction and without the header, delivered concurrently
SessionEvents ==
    { e \in AsrEvents \cup ActiveEvents : e.dir \in {"inbound", "absent"} }

NextSession ==
    \/ Load
    \/ \E t \in Threads, e \in SessionEvents : Deliver(t, e)
    \/ \E t \in Threads : AsrStep(t)
    \/ \E t \in Threads : DestroyStep(t)

SpecSession == Init /\ [][NextSession]_vars

\* channel-create, channel-answered and channel-hangup events that all carry
\* Call-Direction inbound or outbound, the hangups with an answered time that
\* parses, delivered concurrently
DirectedEvents ==
    { e \in AsrEvents \cup HangupEvents :
        /\ e.dir \in {"inbound", "outbound"}
        /\ e.op = "CHANNEL_HANGUP" => e.ans.num }

NextDirected ==
    \/ Load
    \/ \E t \in Threads, e \in DirectedEvents : Deliver(t, e)
    \/ \E t \in Threads : AsrStep(t)
    \/ \E t \in Threads : HangupStep(t)

SpecDirected == Init /\ [][NextDirected]_vars

UnloadStep ==
    \/ UnloadBegin
    \/ UnloadClearGauges
    \/ UnloadClearCounters
    \/ UnloadUnbind
    \/ UnloadStop
    \/ UnloadReset

\* heartbeats of a module that is loaded, unloaded and loaded again
NextReload ==
    \/ Load
    \/ UnloadStep
    \/ \E t \in Threads, e \in HeartbeatEvents : Deliver(t, e)
    \/ \E t \in Threads : HeartbeatInc(t)

SpecReload == Init /\ [][NextReload]_vars

\* the steps of an unload that has begun
UnloadRun ==
    \/ UnloadClearGauges
    \/ UnloadClearCounters
    \/ UnloadUnbind
    \/ UnloadStop
    \/ UnloadReset

\* one counter command and one gauge command on the same name, and the event
\* whose handler recomputes a derived gauge
LiveCommands ==
    { c \in Commands :
        /\ ~c.null
        /\ c.name = "m"
        /\ \/ c.op = "counter_increment" /\ c.tok = Absent
           \/ c.op = "gauge_set" /\ c.tok = Num(MaxVal) }

LiveEvents == { Event("CHANNEL_CREATE", "inbound") }

\* the module is loaded once
LiveLoad == nLoads = 0 /\ Load

LiveEnter(t) == nCmds < MaxLiveCmds /\ InvokeFrom(t, LiveCommands)

LiveDeliver(t, e) == nEvents < MaxLiveEvents /\ Dispatch(t, e, ZeroMetrics)

\* event handlers, commands and unloads interleaved, every thread that can
\* take a step taking it in the end
NextLive ==
    \/ LiveLoad
    \/ UnloadStep
    \/ \E t \in Threads : LiveEnter(t)
    \/ \E t \in Threads : CmdStep(t)
    \/ \E t \in Threads, e \in LiveEvents : LiveDeliver(t, e)
    \/ \E t \in Threads : CreateStep(t)

Fairness ==
    /\ WF_vars(UnloadRun)
    /\ \A t \in Threads : WF_vars(CmdStep(t)) /\ WF_vars(CreateStep(t))

SpecLive == Init /\ [][NextLive]_vars /\ Fairness

\* load, unload and the commands, the command functions being entered at any
\* moment of the module's life
NextLife ==
    \/ Load
    \/ UnloadStep
    \/ \E t \in Threads : CmdEnter(t)
    \/ \E t \in Threads : CmdStep(t)

SpecLife == Init /\ [][NextLife]_vars

AllEvents ==
    AsrEvents \cup AcdEvents \cup HangupEvents \cup ActiveEvents
    \cup RegEvents \cup HeartbeatEvents

\* everything: lifecycle, commands and events, concurrently
Next ==
    \/ Load
    \/ UnloadStep
    \/ \E t \in Threads : CmdEnter(t)
    \/ \E t \in Threads : CmdStep(t)
    \/ \E t \in Threads, e \in AllEvents : Deliver(t, e)
    \/ \E t \in Threads : AsrStep(t) \/ AcdStep(t)
    \/ \E t \in Threads : HangupStep(t) \/ DestroyStep(t)
    \/ \E t \in Threads : RegStep(t) \/ HeartbeatInc(t)

Spec == Init /\ [][Next]_vars

\* ================================================================ claims
Quiescent == \A t \in Threads : pc[t] = "idle"

TwoDirs == {"inbound", "outbound"}

\* the built-in metrics of a direction, by what they measure
DirCreated(d)  == "Sessions" \o (IF d = "inbound" THEN "Inbound" ELSE "Outbound")
                             \o "Created"
DirAnswered(d) == "Sessions" \o (IF d = "inbound" THEN "Inbound" ELSE "Outbound")
                             \o "Answered"
DirActive(d)   == "SessionsActive" \o (IF d = "inbound" THEN "Inbound" ELSE "Outbound")
DirASR(d)      == "Sessions" \o (IF d = "inbound" THEN "Inbound" ELSE "Outbound")
                             \o "ASR"
DirACD(d)      == "Sessions" \o (IF d = "inbound" THEN "Inbound" ELSE "Outbound")
                             \o "ACD"
DirDuration(d) == "Sessions" \o (IF d = "inbound" THEN "Inbound" ELSE "Outbound")
                             \o "CallDurationTotal"
DirHupDone(d)  == "Sessions" \o (IF d = "inbound" THEN "Inbound" ELSE "Outbound")
                             \o "CallHangupComplete"

\* the gauge value r is exactly the ratio a / b
IsRatio(r, a, b) == b # 0 /\ r.d # 0 /\ r.n * b = a * r.d

\* the dynamic instances of a kind and name, and their registrations
Instances(kind, name) ==
    { i \in 1 .. Len(heap) : heap[i].kind = kind /\ heap[i].name = name }
RegistrationsOf(i) == { j \in 1 .. Len(registry) : registry[j].inst = i }

Store(kind) == IF kind = "counter" THEN userCounters ELSE userGauges

\* C1: concurrent first uses of one dynamic name create one instance in its
\* store, which the store maps the name to and every caller operates on, and
\* the Registry receives exactly one registration of it.
C1_OneInstancePerName ==
    /\ \A kind \in {"counter", "gauge"}, n \in UserNames :
         /\ Cardinality(Instances(kind, n)) <= 1
         /\ \A i \in Instances(kind, n) :
              /\ n \in DOMAIN Store(kind) /\ Store(kind)[n] = i
              /\ Cardinality(RegistrationsOf(i)) = 1
    /\ \A t \in Threads :
         /\ pc[t] = "g_op" =>
              /\ loc[t].name \in DOMAIN userGauges
              /\ loc[t].inst = userGauges[loc[t].name]
         /\ pc[t] = "c_incr" => loc[t].name \in DOMAIN userCounters

\* two threads inside counter_increment for one name that was unseen when
\* both entered: one has created it and holds the store, the other waits
C1_Witness ==
    \E t1, t2 \in Threads :
        /\ t1 # t2
        /\ pc[t1] = "c_incr" /\ pc[t2] = "c_lock"
        /\ loc[t1].name = loc[t2].name
        /\ nCmds = 2
        /\ Cardinality(Instances("counter", loc[t1].name)) = 1
        /\ Len(heap) = 1

\* C2: every metric name is registered at most once in the Registry, over
\* counters and gauges together.
C2_NameRegisteredOnce ==
    \A j, k \in 1 .. Len(registry) :
        registry[j].name = registry[k].name => j = k

\* C3: a dynamic-metric command never dereferences REGPTR while it is null,
\* whenever in the module's life it is invoked.
C3_CommandsNeverDerefNull ==
    derefNull \cap {"counter_increment_api", "gauge_get"} = {}

\* C4: the value of a dynamic counter is never negative and never decreases.
C4_CountersMonotone ==
    [][\A i \in 1 .. Len(heap) :
          heap[i].kind = "counter" => heap'[i].v >= heap[i].v /\ heap'[i].v >= 0]_vars

\* C5: when the channel-answered handler has read a created count of zero as
\* its divisor, it leaves the direction's ASR gauge unchanged or sets it to zero.
C5_AsrGuarded ==
    [][\A t \in Threads, d \in TwoDirs :
          (pc[t] = "an_set" /\ pc'[t] = "idle" /\ task[t].dir = d /\ loc[t].b = 0)
          => (gauges'[DirASR(d)] = gauges[DirASR(d)] \/ gauges'[DirASR(d)] = F(0))]_vars

\* C6: when every handler has returned and a direction's created counter is
\* positive, its ASR gauge is its answered count over its created count.
C6_AsrConsistentAtRest ==
    \A d \in TwoDirs :
        (Quiescent /\ counters[DirCreated(d)] > 0)
        => IsRatio(gauges[DirASR(d)], counters[DirAnswered(d)],
                   counters[DirCreated(d)])

\* C7: a channel-create event of direction d handled with no other handler
\* interleaved adds 1 to the global and to d's created counter and to d's
\* active gauge, sets d's ASR gauge to d's answered count over d's new created
\* count, and changes no other built-in metric.
C7_CreateEffect ==
    [][\A t \in Threads, d \in TwoDirs :
          (pc[t] = "cr_set" /\ pc'[t] = "idle" /\ task[t].dir = d)
          => /\ counters' = [pre[t].c EXCEPT !["SessionsCreated"] = @ + 1,
                                             ![DirCreated(d)] = @ + 1]
             /\ \A g \in GaugeIds \ {DirActive(d), DirASR(d)} :
                    gauges'[g] = pre[t].g[g]
             /\ gauges'[DirActive(d)] = FAdd(pre[t].g[DirActive(d)], 1)
             /\ IsRatio(gauges'[DirASR(d)], pre[t].c[DirAnswered(d)],
                        pre[t].c[DirCreated(d)] + 1)]_vars

\* an inbound create has just returned, after an inbound create and an
\* inbound answer: the ASR gauge went to 1/2
C7_Witness ==
    /\ Quiescent
    /\ out.op = "CHANNEL_CREATE" /\ out.dir = "inbound"
    /\ counters["SessionsInboundCreated"] = 2
    /\ counters["SessionsInboundAnswered"] = 1
    /\ counters["SessionsCreated"] = 2
    /\ gauges["SessionsActiveInbound"] = F(2)
    /\ gauges["SessionsInboundASR"] = [n |-> 1, d |-> 2]

\* C8: a channel-answered event of direction d handled with no other handler
\* interleaved while d's created counter is positive adds 1 to the global and
\* to d's answered counter, sets d's ASR gauge to the new answered count over
\* d's created count, and changes no other built-in metric.
C8_AnswerEffect ==
    [][\A t \in Threads, d \in TwoDirs :
          (/\ pc[t] = "an_set" /\ pc'[t] = "idle" /\ task[t].dir = d
           /\ pre[t].c[DirCreated(d)] > 0)
          => /\ counters' = [pre[t].c EXCEPT !["SessionsAnswered"] = @ + 1,
                                             ![DirAnswered(d)] = @ + 1]
             /\ \A g \in GaugeIds \ {DirASR(d)} : gauges'[g] = pre[t].g[g]
             /\ IsRatio(gauges'[DirASR(d)], pre[t].c[DirAnswered(d)] + 1,
                        pre[t].c[DirCreated(d)])]_vars

\* an outbound answer has just returned, after two outbound creates: the ASR
\* gauge went from 0 to 1/2
C8_Witness ==
    /\ Quiescent
    /\ out.op = "CHANNEL_ANSWER" /\ out.dir = "outbound"
    /\ counters["SessionsOutboundCreated"] = 2
    /\ counters["SessionsOutboundAnswered"] = 1
    /\ counters["SessionsAnswered"] = 1
    /\ gauges["SessionsOutboundASR"] = [n |-> 1, d |-> 2]

\* C9: a channel-hangup-complete event with cause NORMAL_CLEARING, billsec b
\* and direction d, handled with no other handler interleaved, adds b to d's
\* total-duration counter and 1 to d's hangup-complete counter and changes no
\* other counter and no gauge but d's ACD.
C9_HangupCompleteEffect ==
    [][\A t \in Threads, d \in TwoDirs :
          (pc[t] = "hc_set" /\ pc'[t] = "idle" /\ task[t].dir = d)
          => /\ task[t].cause = "NORMAL_CLEARING" /\ task[t].bill.num
             /\ counters' = [pre[t].c EXCEPT ![DirDuration(d)] = @ + task[t].bill.v,
                                             ![DirHupDone(d)] = @ + 1]
             /\ \A g \in GaugeIds \ {DirACD(d)} : gauges'[g] = pre[t].g[g]]_vars

\* the first outbound hangup-complete, of MaxBill seconds, has returned:
\* total MaxBill, count 1, ACD MaxBill
C9_Witness ==
    /\ Quiescent
    /\ out.op = "CHANNEL_HANGUP_COMPLETE" /\ out.dir = "outbound"
    /\ counters["SessionsOutboundCallDurationTotal"] = MaxBill
    /\ counters["SessionsOutboundCallHangupComplete"] = 1
    /\ gauges["SessionsOutboundACD"] = F(MaxBill)
    /\ counters["SessionsInboundCallHangupComplete"] = 0

\* C10: when a channel-hangup-complete handler that ran with no other handler
\* interleaved returns, d's ACD gauge times d's hangup-complete counter is d's
\* total-duration counter.
C10_AcdExact ==
    [][\A t \in Threads, d \in TwoDirs :
          (pc[t] = "hc_set" /\ pc'[t] = "idle" /\ task[t].dir = d)
          => IsRatio(gauges'[DirACD(d)], counters'[DirDuration(d)],
                     counters'[DirHupDone(d)])]_vars

DirFailed(d) == "Sessions" \o (IF d = "inbound" THEN "Inbound" ELSE "Outbound")
                \o "Failed"
DirHangup(d) == "Sessions" \o (IF d = "inbound" THEN "Inbound" ELSE "Outbound")
                \o "CallHangup"

FailedCounters == {"SessionsFailed", "SessionsInboundFailed", "SessionsOutboundFailed"}

\* a channel-hangup handler returns on thread t
HangupReturns(t) ==
    /\ task[t].op = "CHANNEL_HANGUP"
    /\ pc[t] # "idle"
    /\ pc'[t] = "idle"

ZeroAnswerTime(e) == e.ans.present /\ e.ans.num /\ e.ans.v = 0

\* C12 as stated: every channel-hangup event whose answered time parses to
\* zero, handled with no other handler interleaved, adds 1 to the global
\* failed counter and 1 to the failed counter of its direction; one whose
\* answered time is non-zero, missing or unparseable changes no failed counter.
C12_ZeroTimeCountsFailed ==
    [][\A t \in Threads :
          HangupReturns(t)
          => IF ZeroAnswerTime(task[t])
             THEN /\ counters'["SessionsFailed"] = pre[t].c["SessionsFailed"] + 1
                  /\ \A d \in TwoDirs :
                        counters'[DirFailed(d)] =
                          pre[t].c[DirFailed(d)] + (IF task[t].dir = d THEN 1 ELSE 0)
             ELSE \A c \in FailedCounters : counters'[c] = pre[t].c[c]]_vars

\* C12, amended: every channel-hangup event whose answered time parses to
\* zero and that carries a Call-Direction header, handled with no other
\* handler interleaved, adds 1 to the global failed counter, and 1 to the
\* failed counter of its direction when that is inbound or outbound; one that
\* has no Call-Direction header, or whose answered time is non-zero, missing
\* or unparseable, changes no failed counter.
C12_FailedEffect ==
    [][\A t \in Threads :
          HangupReturns(t)
          => IF ZeroAnswerTime(task[t]) /\ task[t].dir # "absent"
             THEN /\ counters'["SessionsFailed"] = pre[t].c["SessionsFailed"] + 1
                  /\ \A d \in TwoDirs :
                        counters'[DirFailed(d)] =
                          pre[t].c[DirFailed(d)] + (IF task[t].dir = d THEN 1 ELSE 0)
             ELSE \A c \in FailedCounters : counters'[c] = pre[t].c[c]]_vars

\* the first hangup, inbound with answered time zero, has returned: one failed
\* call, one inbound failed call
C12_Witness ==
    /\ Quiescent
    /\ nEvents = 1
    /\ out.op = "CHANNEL_HANGUP" /\ out.dir = "inbound"
    /\ counters["SessionsFailed"] = 1
    /\ counters["SessionsInboundFailed"] = 1
    /\ counters["SessionsOutboundFailed"] = 0
    /\ counters["SessionsInboundCallHangup"] = 1

\* C13: when no handler is running, each direction's hangup counter is the
\* number of channel-hangup events delivered with that Call-Direction.
C13_HangupByDirection ==
    Quiescent
    => \A d \in TwoDirs : counters[DirHangup(d)] = Seen("CHANNEL_HANGUP", d)

\* the events of one kind delivered so far with a Call-Direction in S
RECURSIVE SeenIn(_, _)
SeenIn(kind, S) ==
    IF S = {} THEN 0
    ELSE LET d == CHOOSE x \in S : TRUE
         IN  Seen(kind, d) + SeenIn(kind, S \ {d})

\* C14: when no handler is running, each direction's active-sessions gauge is
\* the number of channel-create events delivered with that direction minus the
\* number of channel-destroy events delivered with it, below zero when the
\* destroys outnumber the creates, and the global destroyed counter is the
\* number of channel-destroy events delivered.
C14_ActiveBalance ==
    Quiescent
    => /\ \A d \in TwoDirs :
             gauges[DirActive(d)] =
               F(Seen("CHANNEL_CREATE", d) - Seen("CHANNEL_DESTROY", d))
       /\ counters["SessionsDestroyed"] = SeenIn("CHANNEL_DESTROY", Dirs)

\* MaxEvents events have been handled: more inbound destroys than creates,
\* and the inbound gauge is below zero
C14_Witness ==
    /\ Quiescent
    /\ nEvents = MaxEvents
    /\ Seen("CHANNEL_DESTROY", "inbound") > Seen("CHANNEL_CREATE", "inbound")
    /\ Seen("CHANNEL_CREATE", "outbound") = 1
    /\ gauges["SessionsActiveInbound"].n < 0
    /\ gauges["SessionsActiveOutbound"] = F(1)

RegCounters == {"Registrations", "RegistrationAttempts", "RegistrationFailures"}

\* C15: when no handler is running, the registrations, registration-attempts
\* and registration-failures counters are the numbers of register,
\* register_attempt and register_failure events delivered, and the
\* active-registrations gauge is the number of register events minus the
\* numbers of unregister and of expire events; at every moment every other
\* counter and gauge is as the registrar's events found it.
C15_RegistrationTallies ==
    /\ Quiescent
       => /\ counters["Registrations"] = Seen("sofia::register", "absent")
          /\ counters["RegistrationAttempts"] =
                Seen("sofia::register_attempt", "absent")
          /\ counters["RegistrationFailures"] =
                Seen("sofia::register_failure", "absent")
          /\ gauges["RegistrationsActive"] =
                F(Seen("sofia::register", "absent")
                  - Seen("sofia::unregister", "absent")
                  - Seen("sofia::expire", "absent"))
    /\ \A c \in CounterIds \ RegCounters : counters[c] = 0
    /\ \A g \in GaugeIds \ {"RegistrationsActive"} : gauges[g] = F(0)

\* a register, an unregister and an expire have been handled: one
\* registration counted, the gauge at -1
C15_Witness ==
    /\ Quiescent
    /\ Seen("sofia::register", "absent") = 1
    /\ Seen("sofia::unregister", "absent") = 1
    /\ Seen("sofia::expire", "absent") = 1
    /\ counters["Registrations"] = 1
    /\ gauges["RegistrationsActive"] = F(-1)

\* the value a command gives, 1 when it gives none
Given(cmd) == IF cmd.tok.present THEN cmd.tok.v ELSE 1

\* C16: counter_increment creates the counter of an unseen name at 0; it adds
\* the given value, 1 when none is given, to the counter the store holds for
\* the name and reports that counter's new value with SUCCESS; a name keeps
\* the counter it was given, so later calls accumulate on it.
C16_CounterIncrement ==
    [][/\ \A t \in Threads :
            /\ (pc[t] = "c_create" /\ pc'[t] = "c_incr")
               => /\ task[t].name \notin DOMAIN userCounters
                  /\ task[t].name \in DOMAIN userCounters'
                  /\ userCounters'[task[t].name] \notin 1 .. Len(heap)
                  /\ heap'[userCounters'[task[t].name]].v = 0
            /\ (pc[t] = "c_incr" /\ pc'[t] = "idle")
               => /\ task[t].op = "counter_increment"
                  /\ task[t].name \in DOMAIN userCounters
                  /\ LET i == userCounters[task[t].name]
                     IN  /\ heap'[i].v = heap[i].v + Given(task[t])
                         /\ out'.v = heap'[i].v
                         /\ out'.status = "SUCCESS"
       /\ \A n \in DOMAIN userCounters :
            n \in DOMAIN userCounters' /\ userCounters'[n] = userCounters[n]]_vars

\* "m MaxVal" and "m" have both returned: one counter, at MaxVal + 1, which is
\* what the later of the two reported
C16_Witness ==
    /\ Quiescent
    /\ nCmds = 2
    /\ Len(heap) = 1
    /\ heap[1] = [kind |-> "counter", name |-> "m", v |-> MaxVal + 1]
    /\ out.op = "counter_increment" /\ out.status = "SUCCESS"
    /\ out.v = MaxVal + 1

\* C17: a gauge is created at 0; gauge_set leaves it at the given value,
\* gauge_increment and the application add the given value and
\* gauge_decrement subtracts it (1 when none is given), whatever the sign of
\* the result; the command reports the new value, and nothing else changes
\* the value of a gauge.
C17_GaugeArithmetic ==
    [][/\ \A t \in Threads :
            /\ (pc[t] = "g_create" /\ pc'[t] = "g_op")
               => /\ loc'[t].inst \notin 1 .. Len(heap)
                  /\ heap'[loc'[t].inst].v = 0
                  /\ userGauges'[task[t].name] = loc'[t].inst
            /\ (pc[t] = "g_op" /\ pc'[t] = "idle")
               => LET i == loc[t].inst
                      new == IF task[t].op = "gauge_set" THEN Given(task[t])
                             ELSE IF task[t].op = "gauge_decrement"
                                  THEN heap[i].v - Given(task[t])
                                  ELSE heap[i].v + Given(task[t])
                  IN  /\ userGauges[task[t].name] = i
                      /\ heap'[i].v = new
                      /\ out'.v = new
       /\ \A i \in 1 .. Len(heap) :
            (heap[i].kind = "gauge" /\ heap'[i] # heap[i])
            => \E t \in Threads :
                  pc[t] = "g_op" /\ pc'[t] = "idle" /\ loc[t].inst = i]_vars

\* a gauge set to -1 and then decremented by MaxVal reports -(MaxVal + 1)
C17_Witness ==
    /\ Quiescent
    /\ nCmds = 2
    /\ Len(heap) = 1
    /\ heap[1].kind = "gauge"
    /\ out.op = "gauge_decrement"
    /\ out.v = 0 - (MaxVal + 1)
    /\ heap[1].v = out.v

\* C18: a command whose value token is there but is not a number gets no
\* further than the parser; a command the parser stops returns FALSE (the
\* application returns, having logged the error) with an error message, and
\* no metric, store or registry has changed.
C18_BadValueRejected ==
    [][/\ \A t \in Threads :
            (pc[t] = "idle" /\ pc'[t] # "idle")
            => ~(task'[t].tok.present /\ ~task'[t].tok.num)
       /\ (nCmds' # nCmds /\ pc' = pc)
          => /\ out'.msg \in {"Invalid arguments", "Invalid metric value"}
             /\ out'.status = IF out'.op \in AppOps THEN "logged" ELSE "FALSE"
             /\ UNCHANGED << heap, userCounters, userGauges, storeLock,
                             registry, counters, gauges >>]_vars

\* after a command that created a metric, gauge_set with a value that does
\* not parse has returned FALSE; the metric is as it was
C18_Witness ==
    /\ Quiescent
    /\ nCmds = 2
    /\ out.op = "gauge_set" /\ out.status = "FALSE"
    /\ out.msg = "Invalid metric value"
    /\ Len(heap) = 1
    /\ heap[1].v = MaxVal

\* C19: prometheus_unload never dereferences a null REGPTR and never brings
\* the process down, whether or not the module is loaded when it is called.
C19_UnloadIdempotent ==
    /\ "prometheus_unload" \notin derefNull
    /\ hostPc # "idle" => ~crashed

\* the registrations the current Registry holds for a metric name
Registered(kind, name) ==
    { j \in 1 .. Len(registry) :
        registry[j].kind = kind /\ registry[j].name = name }

\* each built-in name is registered exactly once
BuiltinsRegisteredOnce ==
    /\ \A i \in 1 .. Len(COUNTERS) :
          Cardinality(Registered("counter", COUNTERS[i])) = 1
    /\ \A i \in 1 .. Len(GAUGES) :
          Cardinality(Registered("gauge", GAUGES[i])) = 1

\* C20: when prometheus_load returns, the first time or after an unload, the
\* registry holds each of the 20 built-in counter names and 7 built-in gauge
\* names exactly once and every built-in metric is zero.
C20_FreshAfterLoad ==
    [][nLoads' # nLoads
       => /\ BuiltinsRegisteredOnce'
          /\ counters' = [c \in CounterIds |-> 0]
          /\ gauges' = [g \in GaugeIds |-> F(0)]]_vars

\* a sequence that holds no value twice
NoRepeat(s) == \A i, j \in DOMAIN s : s[i] = s[j] => i = j

\* C21: the ledger holds exactly the handles that are bound, each once; no
\* handle is given to event_unbind twice; and whenever no unload is under way
\* and the module is not loaded, the ledger is empty, nothing is bound and
\* every handle event_bind ever returned has been unbound.
C21_LedgerBalanced ==
    /\ NoRepeat(eventNodeIds)
    /\ Range(eventNodeIds) = DOMAIN subs
    /\ NoRepeat(unbound)
    /\ Range(unbound) \cap DOMAIN subs = {}
    /\ (hostPc = "idle" /\ regptr = "NULL")
       => /\ eventNodeIds = << >>
          /\ Range(unbound) = 1 .. nextNode - 1

\* MaxLoads loads, each followed by a complete unload: every handle of every
\* load has been released
C21_Witness ==
    /\ ~crashed
    /\ nLoads = MaxLoads
    /\ hostPc = "idle" /\ regptr = "NULL"
    /\ Len(unbound) = MaxLoads * Len(EventKinds)
    /\ eventNodeIds = << >>

\* the threads inside the heartbeat handler
Beating == { t \in Threads : pc[t] = "hb_inc" }

\* C22: the heartbeat counter plus the number of heartbeat handlers that have
\* not returned yet is the number of heartbeat events delivered; so once all
\* have returned the counter has grown by exactly that number, whichever way
\* the handlers were interleaved.
C22_NoLostIncrement ==
    counters["Heartbeats"] + Cardinality(Beating) = Seen("HEARTBEAT", "absent")

\* one heartbeat has been counted and every thread is inside the handler of
\* a further one
C22_Witness ==
    /\ Beating = Threads
    /\ counters["Heartbeats"] = 1
    /\ Seen("HEARTBEAT", "absent") = NumThreads + 1

\* C23: from the handler's increment of the hangup-complete counter to the
\* division, that counter is at least 1; the divisor the handler reads is at
\* least 1, and the division never brings the process down.
C23_DivisorNeverZero ==
    /\ ~crashed
    /\ \A t \in Threads :
          /\ pc[t] \in {"hc_seconds", "hc_hup"}
             => counters[HupComplete(task[t].dir)] >= 1
          /\ pc[t] = "hc_set" => loc[t].b >= 1

\* every thread has divided for the same direction, one of them by a count
\* another thread's increment had raised in between
C23_Witness ==
    /\ \A t \in Threads : pc[t] = "hc_set" /\ task[t].dir = "outbound"
    /\ \E t \in Threads : loc[t].b = NumThreads
    /\ counters["SessionsOutboundCallHangupComplete"] = NumThreads

\* the global counter of a session event
GlobalOf(kind) ==
    IF kind = "CHANNEL_CREATE" THEN "SessionsCreated"
    ELSE IF kind = "CHANNEL_ANSWER" THEN "SessionsAnswered"
    ELSE "SessionsDestroyed"

\* C24: the handler of a channel-create, channel-answered or channel-destroy
\* event without a Call-Direction header takes one step: it adds 1 to the
\* event's global counter, changes no other counter and no gauge, and
\* returns, the process running as before.
C24_NoDirectionFrame ==
    [][\A t \in Threads :
          ( /\ pc[t] # "idle" /\ pc'[t] # pc[t]
            /\ task[t].dir = "absent"
            /\ task[t].op \in {"CHANNEL_CREATE", "CHANNEL_ANSWER", "CHANNEL_DESTROY"} )
          => /\ pc'[t] = "idle"
             /\ counters' = [counters EXCEPT ![GlobalOf(task[t].op)] = @ + 1]
             /\ gauges' = gauges
             /\ crashed' = crashed]_vars

\* a create, an answer and a destroy without Call-Direction have been handled
\* one after another: the three global counters are 1, all else is zero
C24_Witness ==
    /\ Quiescent /\ ~crashed
    /\ \A k \in {"CHANNEL_CREATE", "CHANNEL_ANSWER", "CHANNEL_DESTROY"} :
          Seen(k, "absent") = 1 /\ counters[GlobalOf(k)] = 1
    /\ \A c \in CounterIds \ {"SessionsCreated", "SessionsAnswered",
                                "SessionsDestroyed"} : counters[c] = 0
    /\ gauges = ZeroMetrics.g

\* C26: when no handler is running and every event delivered carried
\* Call-Direction inbound or outbound, the global created, answered and failed
\* counters are each the sum of their inbound and outbound counters.
C26_GlobalIsSum ==
    Quiescent
    => /\ counters["SessionsCreated"] =
            counters["SessionsInboundCreated"] + counters["SessionsOutboundCreated"]
       /\ counters["SessionsAnswered"] =
            counters["SessionsInboundAnswered"] + counters["SessionsOutboundAnswered"]
       /\ counters["SessionsFailed"] =
            counters["SessionsInboundFailed"] + counters["SessionsOutboundFailed"]

\* an inbound create, an outbound answer and an outbound hangup that was
\* never answered have been handled
C26_Witness ==
    /\ Quiescent
    /\ counters["SessionsInboundCreated"] = 1
    /\ counters["SessionsOutboundAnswered"] = 1
    /\ counters["SessionsOutboundFailed"] = 1
    /\ counters["SessionsCreated"] = 1
    /\ counters["SessionsAnswered"] = 1
    /\ counters["SessionsFailed"] = 1

====
